---- MODULE Spec2Model ----
(***************************************************************************)
(* Model of app/modules/dataset/services.py (uvlhub):                      *)
(*   - DSDownloadRecordService / DSViewRecordService.create_cookie, the    *)
(*     check-then-act visit/download tracker, run by concurrent requests;  *)
(*   - DataSetService.create_from_form / update_from_form /                *)
(*     populate_form_from_dataset, the dataset workflow, run statement by  *)
(*     statement against a session (pending writes) and a committed store; *)
(*   - DataSetService.move_feature_models and the statistics methods;      *)
(*   - SizeService.get_human_readable_size.                                *)
(***************************************************************************)
EXTENDS Integers, Sequences, FiniteSets, TLC

VARIABLES
    records,      \* tracker tables: kind -> sequence of rows [dataset_id, cookie]
    req,          \* in-flight create_cookie requests: request slot -> locals
    uuidCount,    \* number of uuid.uuid4() values drawn so far
    history       \* completed create_cookie calls, in order of return

VARIABLES
    db,           \* the committed store: table name -> sequence of rows
    sess,         \* the session's view: the store plus its pending (flushed) writes
    wf,           \* the running create_from_form / update_from_form call: its locals
    db0,          \* the committed store as it was when the running call started
    prev,         \* what the last finished workflow call did
    nCreates,     \* create_from_form calls started
    nUpdates,     \* update_from_form calls started
    tempFiles     \* user id -> file names in current_user.temp_folder()

VARIABLES
    uploads,      \* <<user id, dataset id>> -> file names in the dataset's directory
    mv,           \* the running move_feature_models call: its locals
    stat,         \* the last statistics call: the method and what it gave
    fmt           \* the last get_human_readable_size call: the size and the text

trackerVars == <<records, req, uuidCount, history>>
workflowVars == <<db, sess, wf, db0, prev, nCreates, nUpdates, tempFiles>>
otherVars == <<uploads, mv, stat, fmt>>

vars == <<records, req, uuidCount, history,
          db, sess, wf, db0, prev, nCreates, nUpdates, tempFiles,
          uploads, mv, stat, fmt>>

(***************************************************************************)
(* Bounds of the model.                                                    *)
(***************************************************************************)
MaxCalls == 2         \* create_cookie calls started in one behaviour
MaxCreates == 1       \* create_from_form calls started in one behaviour
MaxUpdates == 2       \* update_from_form calls started in one behaviour
SizeWindow == 12      \* sizes tried on each side of a unit threshold

(***************************************************************************)
(* Tracker: values.                                                        *)
(***************************************************************************)
Kinds == {"download", "view"}
Requests == {"r1", "r2"}            \* two requests may be served at once
TrackedDatasets == {1, 2}           \* dataset.id of the datasets visited
None == "None"                      \* request.cookies.get(...) of an absent cookie
ClientCookies == {"", "c1"}         \* cookie strings a client may send unasked

\* The cookie name each service reads (lines 292 and 327).
CookieName(kind) == kind \o "_cookie"
CookieNames == {CookieName(k) : k \in Kinds}

\* `not user_cookie`: None and the empty string are both falsy.
Falsy(c) == c = None \/ c = ""

\* Mutant of uuid4: the token is drawn once and reused for every request.
uuid4_fixed == "u1"

\* str(uuid.uuid4()): a 128-bit random identifier; modelled as a value never
\* drawn before and never equal to a string a client made up.
uuid4 == "u" \o ToString(uuidCount + 1)

\* Tokens handed out so far: a client can send back any of them.
Issued == {history[i].token : i \in 1..Len(history)}

\* repository.the_record_exists(dataset, user_cookie)
the_record_exists(kind, dataset, user_cookie) ==
    \E i \in 1..Len(records[kind]) :
        /\ records[kind][i].dataset_id = dataset
        /\ records[kind][i].cookie = user_cookie

\* repository.create_new_record(dataset, user_cookie): one insert, no
\* uniqueness check of its own.
create_new_record(kind, dataset, user_cookie) ==
    [records EXCEPT ![kind] =
        Append(@, [dataset_id |-> dataset, cookie |-> user_cookie])]

\* Number of rows of a kind for a (dataset, token) pair.
CountRecords(kind, dataset, token) ==
    Cardinality({i \in 1..Len(records[kind]) :
        /\ records[kind][i].dataset_id = dataset
        /\ records[kind][i].cookie = token})

IdleReq == [pc |-> "idle", kind |-> "download", dataset |-> 1, incoming |-> None,
            user_cookie |-> None, existing_record |-> FALSE, startIdx |-> 0]

CallsStarted == Len(history) + Cardinality({r \in Requests : req[r].pc # "idle"})

\* No create_cookie call is in flight.
NoneInFlight == \A r \in Requests : req[r].pc = "idle"

(***************************************************************************)
(* create_cookie, first half (lines 292-296 / 327-331): read the cookie,   *)
(* draw a uuid when it is missing or empty, query the_record_exists.       *)
(***************************************************************************)
CookieCheck(r, kind, dataset, cookies) ==
    /\ req[r].pc = "idle"
    /\ CallsStarted < MaxCalls
    /\ LET incoming == cookies[CookieName(kind)]
           fresh == Falsy(incoming)
           user_cookie == IF fresh THEN uuid4 ELSE incoming
       IN /\ req' = [req EXCEPT ![r] =
                        [pc |-> "checked", kind |-> kind, dataset |-> dataset,
                         incoming |-> incoming, user_cookie |-> user_cookie,
                         existing_record |->
                             the_record_exists(kind, dataset, user_cookie),
                         startIdx |-> Len(history)]]
          /\ uuidCount' = IF fresh THEN uuidCount + 1 ELSE uuidCount
    /\ UNCHANGED <<records, history>>
    /\ UNCHANGED <<workflowVars, otherVars>>

\* Mutant of CookieCreate: the record is created whatever the query found.
CookieCreate_always(r) ==
    /\ req[r].pc = "checked"
    /\ LET q == req[r]
       IN /\ records' = create_new_record(q.kind, q.dataset, q.user_cookie)
          /\ history' = Append(history,
                [kind |-> q.kind, dataset |-> q.dataset, incoming |-> q.incoming,
                 token |-> q.user_cookie, created |-> TRUE,
                 startIdx |-> q.startIdx])
    /\ req' = [req EXCEPT ![r] = [pc |-> "idle", kind |-> "download", dataset |-> 1,
                                  incoming |-> None, user_cookie |-> None,
                                  existing_record |-> FALSE, startIdx |-> 0]]
    /\ UNCHANGED uuidCount
    /\ UNCHANGED <<workflowVars, otherVars>>

\* Mutant of CookieCreate: the test of the query's answer is inverted.
CookieCreate_inverted(r) ==
    /\ req[r].pc = "checked"
    /\ LET q == req[r]
           created == q.existing_record
       IN /\ records' = IF created
                        THEN create_new_record(q.kind, q.dataset, q.user_cookie)
                        ELSE records
          /\ history' = Append(history,
                [kind |-> q.kind, dataset |-> q.dataset, incoming |-> q.incoming,
                 token |-> q.user_cookie, created |-> created,
                 startIdx |-> q.startIdx])
    /\ req' = [req EXCEPT ![r] = [pc |-> "idle", kind |-> "download", dataset |-> 1,
                                  incoming |-> None, user_cookie |-> None,
                                  existing_record |-> FALSE, startIdx |-> 0]]
    /\ UNCHANGED uuidCount
    /\ UNCHANGED <<workflowVars, otherVars>>

\* Mutant of CookieCreate: both services write to the download repository.
CookieCreate_download_only(r) ==
    /\ req[r].pc = "checked"
    /\ LET q == req[r]
           created == ~q.existing_record
       IN /\ records' = IF created
                        THEN create_new_record("download", q.dataset, q.user_cookie)
                        ELSE records
          /\ history' = Append(history,
                [kind |-> q.kind, dataset |-> q.dataset, incoming |-> q.incoming,
                 token |-> q.user_cookie, created |-> created,
                 startIdx |-> q.startIdx])
    /\ req' = [req EXCEPT ![r] = [pc |-> "idle", kind |-> "download", dataset |-> 1,
                                  incoming |-> None, user_cookie |-> None,
                                  existing_record |-> FALSE, startIdx |-> 0]]
    /\ UNCHANGED uuidCount
    /\ UNCHANGED <<workflowVars, otherVars>>

(***************************************************************************)
(* create_cookie, second half (lines 298-301 / 333-336): create the record *)
(* when the earlier query found none, return the token.                    *)
(***************************************************************************)
CookieCreate(r) ==
    /\ req[r].pc = "checked"
    /\ LET q == req[r]
           created == ~q.existing_record
       IN /\ records' = IF created
                        THEN create_new_record(q.kind, q.dataset, q.user_cookie)
                        ELSE records
          /\ history' = Append(history,
                [kind |-> q.kind, dataset |-> q.dataset, incoming |-> q.incoming,
                 token |-> q.user_cookie, created |-> created,
                 startIdx |-> q.startIdx])
    /\ req' = [req EXCEPT ![r] = IdleReq]
    /\ UNCHANGED uuidCount
    /\ UNCHANGED <<workflowVars, otherVars>>

\* The cookie jars a request can carry: each cookie absent, made up by the
\* client, or a token some earlier call returned.
CookieJars == [CookieNames -> {None} \cup ClientCookies \cup Issued]

(***************************************************************************)
(* Dataset workflow: users, forms and files.                               *)
(***************************************************************************)
U1 == [id |-> 1, profile |-> [surname |-> "Doe", name |-> "Jane",
                              affiliation |-> "US", orcid |-> "0000-0001"]]
U2 == [id |-> 2, profile |-> [surname |-> "Roe", name |-> "Rik",
                              affiliation |-> "UM", orcid |-> ""]]
Users == {U1, U2}

\* Author dictionaries a form can carry (name, affiliation, orcid).
A1 == [name |-> "Lee, Ann", affiliation |-> "UGR", orcid |-> "0000-0002"]
A2 == [name |-> "Kim, Bo", affiliation |-> "", orcid |-> ""]
N1 == [name |-> "Anonymous 1", affiliation |-> "", orcid |-> ""]
N2 == [name |-> "Anonymous 2", affiliation |-> "", orcid |-> ""]

\* PublicationType: the enumeration the metadata column stores; a form field
\* holds the member's value.
PublicationType == {[name |-> "NONE", value |-> "none"],
                    [name |-> "BOOK", value |-> "book"]}

\* The dataset-level fields of a form: two submissions that differ in every field.
DSFieldsA == [title |-> "T1", desc |-> "D1", publication_type |-> "none",
              publication_doi |-> "", dataset_doi |-> "", tags |-> "x"]
DSFieldsB == [title |-> "T2", desc |-> "D2", publication_type |-> "book",
              publication_doi |-> "10.1/p", dataset_doi |-> "10.1/d", tags |-> "y,z"]

\* Feature-model entries of a form (FeatureModelForm): one with an author of
\* its own, one with none.
FMA == [uvl_filename |-> "a.uvl", title |-> "FM a", desc |-> "first",
        publication_type |-> "none", publication_doi |-> "", tags |-> "",
        version |-> "1.0", authors |-> <<A2>>]
FMB == [uvl_filename |-> "b.uvl", title |-> "FM b", desc |-> "second",
        publication_type |-> "book", publication_doi |-> "10.1/q", tags |-> "t",
        version |-> "2.0", authors |-> <<>>]

AuthorLists == {<<>>, <<A2, A1>>}          \* form.get_authors()
AnonymousLists == {<<>>, <<N1, N2>>}       \* form.get_anonymous_authors()
FeatureModelLists == {<<>>, <<FMA, FMB>>}  \* form.feature_models

\* A submitted DataSetForm.  The services copy the metadata fields through
\* without reading them, so the two field sets ride on the two values of the
\* one field the code branches on: a non-anonymous submission carries
\* DSFieldsA, an anonymous one DSFieldsB.
Forms ==
    {[fields |-> IF an THEN DSFieldsB ELSE DSFieldsA, dataset_anonymous |-> an,
      authors |-> a, anonymous_authors |-> n, feature_models |-> m] :
        an \in BOOLEAN, a \in AuthorLists, n \in AnonymousLists,
        m \in FeatureModelLists}

\* The forms submitted to update_from_form, which never reads feature_models.
\* Of the two author lists the call reads one; the other is kept non-empty,
\* the case in which reading it by mistake would show.
UpdateForms ==
    {form \in Forms :
        /\ form.feature_models = <<>>
        /\ IF form.dataset_anonymous THEN form.authors # <<>>
           ELSE form.anonymous_authors # <<>>}

\* Content of the uploaded files: what calculate_checksum_and_size reads.
FileContent == [f \in {"a.uvl", "b.uvl"} |->
                   IF f = "a.uvl" THEN [md5 |-> "md5-a", size |-> 10]
                                  ELSE [md5 |-> "md5-b", size |-> 2048]]

\* calculate_checksum_and_size(file_path): defined when the file is there.
FileExists(user, uvl_filename) == uvl_filename \in tempFiles[user.id]
calculate_checksum_and_size(uvl_filename) ==
    <<FileContent[uvl_filename].md5, FileContent[uvl_filename].size>>

\* kwargs given to a model constructor override the column defaults.
Merge(kwargs, defaults) ==
    [c \in DOMAIN kwargs \cup DOMAIN defaults |->
        IF c \in DOMAIN kwargs THEN kwargs[c] ELSE defaults[c]]

\* form.get_dsmetadata(): the column values of a DSMetaData row.
EnumOf(value) == CHOOSE m \in PublicationType : m.value = value
get_dsmetadata(form) ==
    [title |-> form.fields.title,
     description |-> form.fields.desc,
     publication_type |-> EnumOf(form.fields.publication_type),
     publication_doi |-> form.fields.publication_doi,
     dataset_doi |-> form.fields.dataset_doi,
     tags |-> form.fields.tags,
     dataset_anonymous |-> form.dataset_anonymous]

\* feature_model.get_fmmetadata(): the column values of an FMMetaData row.
get_fmmetadata(feature_model) ==
    [uvl_filename |-> feature_model.uvl_filename,
     title |-> feature_model.title,
     description |-> feature_model.desc,
     publication_type |-> EnumOf(feature_model.publication_type),
     publication_doi |-> feature_model.publication_doi,
     tags |-> feature_model.tags,
     uvl_version |-> feature_model.version]

(***************************************************************************)
(* The persistence layer: tables, the session and the repositories.        *)
(***************************************************************************)
Tables == {"ds_meta_data", "author", "data_set", "fm_meta_data",
           "feature_model", "file"}

EmptyStore == [t \in Tables |-> <<>>]

\* Foreign keys an Author row leaves NULL (0) unless given.
AuthorDefaults == [ds_meta_data_id |-> 0, fm_meta_data_id |-> 0]

RECURSIVE MaxId(_)
MaxId(rows) ==
    IF rows = <<>> THEN 0
    ELSE LET m == MaxId(Tail(rows))
         IN IF Head(rows).id > m THEN Head(rows).id ELSE m

\* session.add + flush: the row gets the table's next id.
Insert(store, table, kwargs) ==
    [store EXCEPT ![table] =
        Append(@, Merge([id |-> MaxId(store[table]) + 1], kwargs))]

Rows(store, table, column, value) ==
    SelectSeq(store[table], LAMBDA row : row[column] = value)

\* BaseRepository.create(commit, **kwargs): add the row, then commit the
\* session when asked to, flush otherwise.  Yields the session, the
\* committed store and the new row's id.
repository_create(commit, table, kwargs) ==
    LET s == Insert(sess, table, kwargs)
    IN [sess |-> s, db |-> IF commit THEN s ELSE db,
        id |-> MaxId(sess[table]) + 1]

\* The flag defers the commit only when given: a call without it commits.
DefaultCommit == TRUE

\* BaseRepository.update(id, **kwargs): set the columns, commit.
repository_update(table, id, kwargs) ==
    LET s == [sess EXCEPT ![table] =
                 [i \in 1..Len(@) |->
                     IF @[i].id = id THEN Merge(kwargs, @[i]) ELSE @[i]]]
    IN [sess |-> s, db |-> s]

\* BaseRepository.delete_by_column(column_name, value): delete, commit.
repository_delete_by_column(table, column_name, value) ==
    LET s == [sess EXCEPT ![table] =
                 SelectSeq(@, LAMBDA row : row[column_name] # value)]
    IN [sess |-> s, db |-> s]

\* The author dictionaries of the rows attached to a metadata row, in order:
\* what ds_meta_data.authors / fm_meta_data.authors iterate over.
AuthorData(row) ==
    [name |-> row.name, affiliation |-> row.affiliation, orcid |-> row.orcid]

AuthorsOf(store, column, id) ==
    LET rows == Rows(store, "author", column, id)
    IN [i \in 1..Len(rows) |-> AuthorData(rows[i])]

(***************************************************************************)
(* DataSetService: the locals of the running call.                         *)
(***************************************************************************)
BlankForm == [fields |-> DSFieldsA, dataset_anonymous |-> FALSE, authors |-> <<>>,
              anonymous_authors |-> <<>>, feature_models |-> <<>>]

IdleWf == [pc |-> "idle", op |-> "none", form |-> BlankForm, current_user |-> U1,
           main_author |-> A1, dataset |-> 0, dsmetadata |-> 0,
           author_list |-> <<>>, i |-> 0, k |-> 0, fmmetadata |-> 0, fm |-> 0,
           checksum |-> "", size |-> 0, exc |-> "", events |-> <<>>]

NoPrev == [op |-> "none", ok |-> FALSE, dataset |-> 0, author_list |-> <<>>]

\* Mutant of main_author: the name is composed as "Name Surname".
main_author_name_first(current_user) ==
    [name |-> current_user.profile.name \o " " \o current_user.profile.surname,
     affiliation |-> current_user.profile.affiliation,
     orcid |-> current_user.profile.orcid]

\* main_author (lines 100-104 and 146-150).
main_author(current_user) ==
    [name |-> current_user.profile.surname \o ", " \o current_user.profile.name,
     affiliation |-> current_user.profile.affiliation,
     orcid |-> current_user.profile.orcid]

\* Mutant of author_list: explicit co-authors win over the anonymous list.
author_list_ignores_anonymous(form, mainAuthor) ==
    IF form.authors # <<>> THEN form.authors
    ELSE IF form.dataset_anonymous THEN form.anonymous_authors
    ELSE <<mainAuthor>>

\* author_list of create_from_form (lines 155-165).
author_list(form, mainAuthor) ==
    LET dsmetadata_info == get_dsmetadata(form)
        is_anonymous == dsmetadata_info.dataset_anonymous
    IN IF is_anonymous THEN form.anonymous_authors
       ELSE IF form.authors # <<>> THEN form.authors
       ELSE <<mainAuthor>>

\* author_list of update_from_form (lines 113-126).
update_author_list(form, mainAuthor) ==
    LET dsmetadata_info == get_dsmetadata(form)
        is_anonymous == dsmetadata_info.dataset_anonymous
    IN IF is_anonymous THEN form.anonymous_authors
       ELSE IF form.authors # <<>> THEN form.authors
       ELSE <<mainAuthor>>

WorkflowFrame == UNCHANGED <<db0, prev, nCreates, nUpdates, tempFiles>>
                 /\ UNCHANGED <<trackerVars, otherVars>>

\* What the except clause of a call does, in order, kept in wf.events.
Failure(exc) == [ev |-> "failure", exc |-> exc]
Logged(exc) == [ev |-> "log", exc |-> exc]
RolledBack == [ev |-> "rollback", exc |-> ""]

\* A statement of the try block raises: control goes to the except clause,
\* which binds the exception to exc.
Raises(handler, exc) ==
    /\ wf' = [wf EXCEPT !.pc = handler, !.exc = exc,
                        !.events = Append(@, Failure(exc))]
    /\ UNCHANGED <<db, sess>>

(***************************************************************************)
(* create_from_form (lines 142-198), one action per repository call.       *)
(***************************************************************************)
\* Lines 142-150: the call starts.
CreateFromForm(form, current_user) ==
    /\ wf.pc = "idle"
    /\ nCreates < MaxCreates
    /\ wf' = [IdleWf EXCEPT !.pc = "cf_dsmetadata", !.op = "create",
                            !.form = form, !.current_user = current_user,
                            !.main_author = main_author(current_user)]
    /\ db0' = db
    /\ nCreates' = nCreates + 1
    /\ UNCHANGED <<db, sess, prev, nUpdates, tempFiles>>
    /\ UNCHANGED <<trackerVars, otherVars>>

\* Lines 152-165: dsmetadata_repository.create(**form.get_dsmetadata()), no
\* commit flag given; then the author list is resolved.
CreateDSMetaData ==
    /\ wf.pc = "cf_dsmetadata"
    /\ \/ LET r == repository_create(DefaultCommit, "ds_meta_data",
                                     get_dsmetadata(wf.form))
              al == author_list(wf.form, wf.main_author)
          IN /\ sess' = r.sess
             /\ db' = r.db
             /\ wf' = [wf EXCEPT !.dsmetadata = r.id, !.author_list = al, !.i = 1,
                          !.pc = IF al = <<>> THEN "cf_dataset" ELSE "cf_authors"]
       \/ Raises("cf_except", "dsmetadata_repository.create")
    /\ WorkflowFrame

\* Lines 167-169: one turn of the author loop.
CreateAuthor ==
    /\ wf.pc = "cf_authors"
    /\ \/ LET author_data == wf.author_list[wf.i]
              r == repository_create(FALSE, "author",
                       Merge(Merge([ds_meta_data_id |-> wf.dsmetadata], author_data),
                             AuthorDefaults))
          IN /\ sess' = r.sess
             /\ db' = r.db
             /\ wf' = [wf EXCEPT !.i = @ + 1,
                          !.pc = IF wf.i = Len(wf.author_list)
                                 THEN "cf_dataset" ELSE "cf_authors"]
       \/ Raises("cf_except", "author_repository.create")
    /\ WorkflowFrame

\* Line 171: self.create(commit=False, user_id=..., ds_meta_data_id=...).
CreateDataSet ==
    /\ wf.pc = "cf_dataset"
    /\ \/ LET r == repository_create(FALSE, "data_set",
                       [user_id |-> wf.current_user.id,
                        ds_meta_data_id |-> wf.dsmetadata])
          IN /\ sess' = r.sess
             /\ db' = r.db
             /\ wf' = [wf EXCEPT !.dataset = r.id, !.k = 1,
                          !.pc = IF wf.form.feature_models = <<>>
                                 THEN "cf_commit" ELSE "cf_fmmetadata"]
       \/ Raises("cf_except", "repository.create")
    /\ WorkflowFrame

\* Lines 173-175: the k-th feature model's metadata.
CreateFMMetaData ==
    /\ wf.pc = "cf_fmmetadata"
    /\ \/ LET feature_model == wf.form.feature_models[wf.k]
              r == repository_create(FALSE, "fm_meta_data",
                                     get_fmmetadata(feature_model))
          IN /\ sess' = r.sess
             /\ db' = r.db
             /\ wf' = [wf EXCEPT !.fmmetadata = r.id, !.i = 1,
                          !.pc = IF feature_model.authors = <<>>
                                 THEN "cf_featuremodel" ELSE "cf_fmauthors"]
       \/ Raises("cf_except", "fmmetadata_repository.create")
    /\ WorkflowFrame

\* Lines 176-178: one turn of the feature model's author loop, over
\* feature_model.get_authors().
CreateFMAuthor ==
    /\ wf.pc = "cf_fmauthors"
    /\ \/ LET authors == wf.form.feature_models[wf.k].authors
              r == repository_create(FALSE, "author",
                       Merge(Merge([fm_meta_data_id |-> wf.fmmetadata],
                                   authors[wf.i]),
                             AuthorDefaults))
          IN /\ sess' = r.sess
             /\ db' = r.db
             /\ wf' = [wf EXCEPT !.i = @ + 1,
                          !.pc = IF wf.i = Len(authors)
                                 THEN "cf_featuremodel" ELSE "cf_fmauthors"]
       \/ Raises("cf_except", "author_repository.create")
    /\ WorkflowFrame

\* Lines 180-182: the FeatureModel row.
CreateFeatureModel ==
    /\ wf.pc = "cf_featuremodel"
    /\ \/ LET r == repository_create(FALSE, "feature_model",
                       [data_set_id |-> wf.dataset,
                        fm_meta_data_id |-> wf.fmmetadata])
          IN /\ sess' = r.sess
             /\ db' = r.db
             /\ wf' = [wf EXCEPT !.fm = r.id, !.pc = "cf_checksum"]
       \/ Raises("cf_except", "feature_model_repository.create")
    /\ WorkflowFrame

\* Lines 185-186: checksum and size of the uploaded file; a missing file raises.
CreateChecksum ==
    /\ wf.pc = "cf_checksum"
    /\ LET uvl_filename == wf.form.feature_models[wf.k].uvl_filename
       IN IF FileExists(wf.current_user, uvl_filename)
          THEN /\ wf' = [wf EXCEPT
                            !.checksum = calculate_checksum_and_size(uvl_filename)[1],
                            !.size = calculate_checksum_and_size(uvl_filename)[2],
                            !.pc = "cf_hubfile"]
               /\ UNCHANGED <<db, sess>>
          ELSE Raises("cf_except", "FileNotFoundError")
    /\ WorkflowFrame

\* Lines 188-191: the Hubfile row; then the next feature model, or the commit.
CreateHubfile ==
    /\ wf.pc = "cf_hubfile"
    /\ \/ LET r == repository_create(FALSE, "file",
                       [name |-> wf.form.feature_models[wf.k].uvl_filename,
                        checksum |-> wf.checksum, size |-> wf.size,
                        feature_model_id |-> wf.fm])
          IN /\ sess' = r.sess
             /\ db' = r.db
             /\ wf' = [wf EXCEPT !.k = @ + 1,
                          !.pc = IF wf.k = Len(wf.form.feature_models)
                                 THEN "cf_commit" ELSE "cf_fmmetadata"]
       \/ Raises("cf_except", "hubfilerepository.create")
    /\ WorkflowFrame

\* Line 192: self.repository.session.commit().
CreateCommit ==
    /\ wf.pc = "cf_commit"
    /\ \/ /\ db' = sess
          /\ wf' = [wf EXCEPT !.pc = "cf_return"]
          /\ UNCHANGED sess
       \/ Raises("cf_except", "session.commit")
    /\ WorkflowFrame

\* Mutant of CreateExcept: the failure is logged but the session is left as
\* it is.
CreateExcept_no_rollback ==
    /\ wf.pc = "cf_except"
    /\ wf' = [wf EXCEPT !.pc = "cf_raise",
                        !.events = @ \o <<Logged(wf.exc)>>]
    /\ UNCHANGED <<db, sess>>
    /\ WorkflowFrame

\* Lines 193-195: the failure is logged and the session rolled back.
CreateExcept ==
    /\ wf.pc = "cf_except"
    /\ sess' = db
    /\ wf' = [wf EXCEPT !.pc = "cf_raise",
                        !.events = @ \o <<Logged(wf.exc), RolledBack>>]
    /\ UNCHANGED db
    /\ WorkflowFrame

\* Line 196: raise exc.
CreateRaise ==
    /\ wf.pc = "cf_raise"
    /\ wf' = IdleWf
    /\ prev' = [op |-> "create", ok |-> FALSE, dataset |-> 0, author_list |-> <<>>]
    /\ db0' = EmptyStore
    /\ UNCHANGED <<db, sess, nCreates, nUpdates, tempFiles>>
    /\ UNCHANGED <<trackerVars, otherVars>>

\* Line 198: return dataset.
CreateReturn ==
    /\ wf.pc = "cf_return"
    /\ wf' = IdleWf
    /\ prev' = [op |-> "create", ok |-> TRUE, dataset |-> wf.dataset,
                author_list |-> wf.author_list]
    /\ db0' = EmptyStore
    /\ UNCHANGED <<db, sess, nCreates, nUpdates, tempFiles>>
    /\ UNCHANGED <<trackerVars, otherVars>>

(***************************************************************************)
(* update_from_form (lines 99-140), one action per repository call.        *)
(***************************************************************************)
\* Lines 99-104: the call starts, on a dataset loaded from the store.
UpdateFromForm(form, current_user, dataset) ==
    /\ wf.pc = "idle"
    /\ nUpdates < MaxUpdates
    /\ wf' = [IdleWf EXCEPT !.pc = "uf_dsmetadata", !.op = "update",
                            !.form = form, !.current_user = current_user,
                            !.main_author = main_author(current_user),
                            !.dataset = dataset.id,
                            !.dsmetadata = dataset.ds_meta_data_id]
    /\ db0' = db
    /\ nUpdates' = nUpdates + 1
    /\ UNCHANGED <<db, sess, prev, nCreates, tempFiles>>
    /\ UNCHANGED <<trackerVars, otherVars>>

\* Lines 108-110: dsmetadata_repository.update(id=..., **form.get_dsmetadata()).
UpdateDSMetaData ==
    /\ wf.pc = "uf_dsmetadata"
    /\ \/ LET r == repository_update("ds_meta_data", wf.dsmetadata,
                                     get_dsmetadata(wf.form))
          IN /\ sess' = r.sess
             /\ db' = r.db
             /\ wf' = [wf EXCEPT !.pc = "uf_delete"]
       \/ Raises("uf_except", "dsmetadata_repository.update")
    /\ WorkflowFrame

\* Mutant of UpdateDeleteAuthors: the prior authors are kept (a merge).
UpdateDeleteAuthors_keeps ==
    /\ wf.pc = "uf_delete"
    /\ \/ LET al == update_author_list(wf.form, wf.main_author)
          IN /\ UNCHANGED <<db, sess>>
             /\ wf' = [wf EXCEPT !.author_list = al, !.i = 1,
                          !.pc = IF al = <<>> THEN "uf_commit" ELSE "uf_authors"]
       \/ Raises("uf_except", "author_repository.delete_by_column")
    /\ WorkflowFrame

\* Mutant of UpdateDeleteAuthors: the delete filters on the wrong foreign key.
UpdateDeleteAuthors_wrong_column ==
    /\ wf.pc = "uf_delete"
    /\ \/ LET r == repository_delete_by_column("author", "fm_meta_data_id",
                                               wf.dsmetadata)
              al == update_author_list(wf.form, wf.main_author)
          IN /\ sess' = r.sess
             /\ db' = r.db
             /\ wf' = [wf EXCEPT !.author_list = al, !.i = 1,
                          !.pc = IF al = <<>> THEN "uf_commit" ELSE "uf_authors"]
       \/ Raises("uf_except", "author_repository.delete_by_column")
    /\ WorkflowFrame

\* Lines 113-126: the prior authors of the metadata are deleted, then the
\* author list is resolved.
UpdateDeleteAuthors ==
    /\ wf.pc = "uf_delete"
    /\ \/ LET r == repository_delete_by_column("author", "ds_meta_data_id",
                                               wf.dsmetadata)
              al == update_author_list(wf.form, wf.main_author)
          IN /\ sess' = r.sess
             /\ db' = r.db
             /\ wf' = [wf EXCEPT !.author_list = al, !.i = 1,
                          !.pc = IF al = <<>> THEN "uf_commit" ELSE "uf_authors"]
       \/ Raises("uf_except", "author_repository.delete_by_column")
    /\ WorkflowFrame

\* Lines 128-130: one turn of the author loop.
UpdateAuthor ==
    /\ wf.pc = "uf_authors"
    /\ \/ LET author_data == wf.author_list[wf.i]
              r == repository_create(FALSE, "author",
                       Merge(Merge([ds_meta_data_id |-> wf.dsmetadata], author_data),
                             AuthorDefaults))
          IN /\ sess' = r.sess
             /\ db' = r.db
             /\ wf' = [wf EXCEPT !.i = @ + 1,
                          !.pc = IF wf.i = Len(wf.author_list)
                                 THEN "uf_commit" ELSE "uf_authors"]
       \/ Raises("uf_except", "author_repository.create")
    /\ WorkflowFrame

\* Line 133: self.repository.session.commit().
UpdateCommit ==
    /\ wf.pc = "uf_commit"
    /\ \/ /\ db' = sess
          /\ wf' = [wf EXCEPT !.pc = "uf_return"]
          /\ UNCHANGED sess
       \/ Raises("uf_except", "session.commit")
    /\ WorkflowFrame

\* Lines 135-137: the failure is logged and the session rolled back.
UpdateExcept ==
    /\ wf.pc = "uf_except"
    /\ sess' = db
    /\ wf' = [wf EXCEPT !.pc = "uf_raise",
                        !.events = @ \o <<Logged(wf.exc), RolledBack>>]
    /\ UNCHANGED db
    /\ WorkflowFrame

\* Line 138: raise exc.
UpdateRaise ==
    /\ wf.pc = "uf_raise"
    /\ wf' = IdleWf
    /\ prev' = [op |-> "update", ok |-> FALSE, dataset |-> wf.dataset,
                author_list |-> <<>>]
    /\ db0' = EmptyStore
    /\ UNCHANGED <<db, sess, nCreates, nUpdates, tempFiles>>
    /\ UNCHANGED <<trackerVars, otherVars>>

\* Line 140: return self.get_by_id(dataset.id).
UpdateReturn ==
    /\ wf.pc = "uf_return"
    /\ wf' = IdleWf
    /\ prev' = [op |-> "update", ok |-> TRUE, dataset |-> wf.dataset,
                author_list |-> wf.author_list]
    /\ db0' = EmptyStore
    /\ UNCHANGED <<db, sess, nCreates, nUpdates, tempFiles>>
    /\ UNCHANGED <<trackerVars, otherVars>>

(***************************************************************************)
(* populate_form_from_dataset (lines 200-244): the form refilled from the  *)
(* dataset as the session loads it.                                        *)
(***************************************************************************)
\* Lines 233-240: the author entries of one metadata row.
AuthorEntries(column, id) == AuthorsOf(sess, column, id)

\* Lines 222-242: one FeatureModelForm entry.
FeatureModelEntry(fm) ==
    LET fm_meta_data == Rows(sess, "fm_meta_data", "id", fm.fm_meta_data_id)[1]
    IN [uvl_filename |-> fm_meta_data.uvl_filename,
        title |-> fm_meta_data.title,
        desc |-> fm_meta_data.description,
        publication_type |-> fm_meta_data.publication_type.value,
        publication_doi |-> fm_meta_data.publication_doi,
        tags |-> fm_meta_data.tags,
        version |-> fm_meta_data.uvl_version,
        authors |-> AuthorEntries("fm_meta_data_id", fm_meta_data.id)]

\* Mutant of populate_form_from_dataset: the author entries already in the
\* form are not cleared before the persisted ones are appended.
populate_form_keeps_entries(form, dataset) ==
    LET ds_meta_data == Rows(sess, "ds_meta_data", "id", dataset.ds_meta_data_id)[1]
        feature_models == Rows(sess, "feature_model", "data_set_id", dataset.id)
    IN [form EXCEPT
           !.fields = [title |-> ds_meta_data.title,
                       desc |-> ds_meta_data.description,
                       publication_type |-> ds_meta_data.publication_type.value,
                       publication_doi |-> ds_meta_data.publication_doi,
                       dataset_doi |-> ds_meta_data.dataset_doi,
                       tags |-> ds_meta_data.tags],
           !.dataset_anonymous = ds_meta_data.dataset_anonymous,
           !.authors = @ \o AuthorEntries("ds_meta_data_id", ds_meta_data.id),
           !.feature_models = [j \in 1..Len(feature_models) |->
                                  FeatureModelEntry(feature_models[j])]]

populate_form_from_dataset(form, dataset) ==
    LET ds_meta_data == Rows(sess, "ds_meta_data", "id", dataset.ds_meta_data_id)[1]
        feature_models == Rows(sess, "feature_model", "data_set_id", dataset.id)
    IN [form EXCEPT
           !.fields = [title |-> ds_meta_data.title,
                       desc |-> ds_meta_data.description,
                       publication_type |-> ds_meta_data.publication_type.value,
                       publication_doi |-> ds_meta_data.publication_doi,
                       dataset_doi |-> ds_meta_data.dataset_doi,
                       tags |-> ds_meta_data.tags],
           !.dataset_anonymous = ds_meta_data.dataset_anonymous,
           !.authors = AuthorEntries("ds_meta_data_id", ds_meta_data.id),
           !.feature_models = [j \in 1..Len(feature_models) |->
                                  FeatureModelEntry(feature_models[j])]]

\* The DataSet rows a caller can load and pass to update_from_form.
LoadedDataSets == {db.data_set[i] : i \in 1..Len(db.data_set)}

(***************************************************************************)
(* DataSetService.move_feature_models (lines 56-67), one action per file.  *)
(***************************************************************************)
IdleMv == [pc |-> "idle", current_user |-> U1, dataset |-> 0, k |-> 0, exc |-> "",
           start |-> [tempFiles |-> <<>>, uploads |-> <<>>, db |-> EmptyStore]]

\* dest_dir (lines 60-61): uploads/user_{current_user.id}/dataset_{dataset.id}.
dest_dir(current_user, dataset) == <<current_user.id, dataset>>

\* uvl_filename of the k-th feature model of the dataset (lines 65-66), as
\* the session loads dataset.feature_models.
MoveFileName(dataset, k) ==
    LET feature_model == Rows(sess, "feature_model", "data_set_id", dataset)[k]
    IN Rows(sess, "fm_meta_data", "id", feature_model.fm_meta_data_id)[1].uvl_filename

\* Lines 56-63: the authenticated user, the directories, os.makedirs.
MoveFeatureModels(current_user, dataset) ==
    /\ mv.pc = "idle"
    /\ wf.pc = "idle"
    /\ LET dest == dest_dir(current_user, dataset.id)
       IN /\ uploads' = IF dest \in DOMAIN uploads THEN uploads
                        ELSE [d \in DOMAIN uploads \cup {dest} |->
                                 IF d = dest THEN {} ELSE uploads[d]]
          /\ mv' = [pc |-> IF Rows(sess, "feature_model", "data_set_id", dataset.id) = <<>>
                           THEN "mv_return" ELSE "mv_move",
                    current_user |-> current_user, dataset |-> dataset.id,
                    k |-> 1, exc |-> "",
                    start |-> [tempFiles |-> tempFiles, uploads |-> uploads', db |-> db]]
    /\ UNCHANGED <<trackerVars, workflowVars, stat, fmt>>

\* Mutant of MoveFile: a file that cannot be moved is skipped and the loop
\* goes on.
MoveFile_skips ==
    /\ mv.pc = "mv_move"
    /\ LET uvl_filename == MoveFileName(mv.dataset, mv.k)
           user == mv.current_user.id
           dest == dest_dir(mv.current_user, mv.dataset)
           last == mv.k = Len(Rows(sess, "feature_model", "data_set_id", mv.dataset))
           fails == uvl_filename \in uploads[dest] \/ uvl_filename \notin tempFiles[user]
       IN /\ tempFiles' = IF fails THEN tempFiles
                          ELSE [tempFiles EXCEPT ![user] = @ \ {uvl_filename}]
          /\ uploads' = IF fails THEN uploads
                        ELSE [uploads EXCEPT ![dest] = @ \cup {uvl_filename}]
          /\ mv' = [mv EXCEPT !.k = @ + 1,
                              !.exc = IF fails THEN "FileNotFoundError" ELSE @,
                              !.pc = IF last
                                     THEN (IF fails \/ mv.exc # "" THEN "mv_raise"
                                           ELSE "mv_return")
                                     ELSE "mv_move"]
    /\ UNCHANGED <<db, sess, wf, db0, prev, nCreates, nUpdates>>
    /\ UNCHANGED <<trackerVars, stat, fmt>>

\* Lines 65-67: one turn of the loop.  shutil.move(src, dest_dir) raises when
\* dest_dir already holds a file of that name, or when src is not there;
\* otherwise the file leaves the temporary folder for dest_dir.
MoveFile ==
    /\ mv.pc = "mv_move"
    /\ LET uvl_filename == MoveFileName(mv.dataset, mv.k)
           user == mv.current_user.id
           dest == dest_dir(mv.current_user, mv.dataset)
           last == mv.k = Len(Rows(sess, "feature_model", "data_set_id", mv.dataset))
       IN IF uvl_filename \in uploads[dest]
          THEN /\ mv' = [mv EXCEPT !.pc = "mv_raise", !.exc = "shutil.Error"]
               /\ UNCHANGED <<tempFiles, uploads>>
          ELSE IF uvl_filename \notin tempFiles[user]
          THEN /\ mv' = [mv EXCEPT !.pc = "mv_raise", !.exc = "FileNotFoundError"]
               /\ UNCHANGED <<tempFiles, uploads>>
          ELSE /\ tempFiles' = [tempFiles EXCEPT ![user] = @ \ {uvl_filename}]
               /\ uploads' = [uploads EXCEPT ![dest] = @ \cup {uvl_filename}]
               /\ mv' = [mv EXCEPT !.k = @ + 1,
                                   !.pc = IF last THEN "mv_return" ELSE "mv_move"]
    /\ UNCHANGED <<db, sess, wf, db0, prev, nCreates, nUpdates>>
    /\ UNCHANGED <<trackerVars, stat, fmt>>

\* The exception leaves move_feature_models: there is no except clause.
MoveRaise ==
    /\ mv.pc = "mv_raise"
    /\ mv' = IdleMv
    /\ UNCHANGED <<trackerVars, workflowVars, uploads, stat, fmt>>

\* The loop is over: the method returns None.
MoveReturn ==
    /\ mv.pc = "mv_return"
    /\ mv' = IdleMv
    /\ UNCHANGED <<trackerVars, workflowVars, uploads, stat, fmt>>

(***************************************************************************)
(* DataSetService: the statistics methods (lines 81-97).                   *)
(***************************************************************************)
\* The attributes DataSetService.__init__ sets (lines 45-54); repository is
\* the one BaseService keeps for the repository handed to it at line 45.
Attributes == {"repository", "feature_model_repository", "author_repository",
               "dsmetadata_repository", "fmmetadata_repository",
               "dsdownloadrecord_repository", "hubfiledownloadrecord_repository",
               "hubfilerepository", "dsviewrecord_repostory",
               "hubfileviewrecord_repository"}

StatisticMethods == {"count_synchronized_datasets", "count_feature_models",
                     "count_authors", "count_dsmetadata",
                     "total_dataset_downloads", "total_dataset_views"}

\* The attribute each method reads off self, and the query it asks of it.
StatisticAttribute ==
    [m \in StatisticMethods |->
        CASE m = "count_synchronized_datasets" -> "repository"
          [] m = "count_feature_models" -> "feature_model_service"
          [] m = "count_authors" -> "author_repository"
          [] m = "count_dsmetadata" -> "dsmetadata_repository"
          [] m = "total_dataset_downloads" -> "dsdownloadrecord_repository"
          [] m = "total_dataset_views" -> "dsviewrecord_repostory"]

\* BaseRepository.count(): the number of rows of the repository's table.
repository_count(table) == Len(db[table])

\* A synchronized dataset is one whose metadata carries a dataset DOI.
count_synchronized_datasets ==
    Len(SelectSeq(db.data_set, LAMBDA dataset :
            \E i \in 1..Len(db.ds_meta_data) :
                /\ db.ds_meta_data[i].id = dataset.ds_meta_data_id
                /\ db.ds_meta_data[i].dataset_doi # ""))

\* The record repositories' totals: the number of tracking records of a kind.
total_dataset_records(kind) == Len(records[kind])

\* What the collaborator behind each attribute answers.
StatisticQuery(m) ==
    CASE m = "count_synchronized_datasets" -> count_synchronized_datasets
      [] m = "count_feature_models" -> repository_count("feature_model")
      [] m = "count_authors" -> repository_count("author")
      [] m = "count_dsmetadata" -> repository_count("ds_meta_data")
      [] m = "total_dataset_downloads" -> total_dataset_records("download")
      [] m = "total_dataset_views" -> total_dataset_records("view")

NoStat == [method |-> "none", returned |-> 0, raised |-> ""]

\* One statistics method is called: reading an attribute that __init__ never
\* set raises AttributeError, otherwise the collaborator's answer is returned.
Statistic(m) ==
    /\ stat = NoStat
    /\ wf.pc = "idle"
    /\ NoneInFlight
    /\ stat' = IF StatisticAttribute[m] \in Attributes
               THEN [method |-> m, returned |-> StatisticQuery(m), raised |-> ""]
               ELSE [method |-> m, returned |-> 0, raised |-> "AttributeError"]
    /\ UNCHANGED <<trackerVars, workflowVars, uploads, mv, fmt>>

\* The caller has the outcome of the call.
StatisticDone ==
    /\ stat # NoStat
    /\ stat' = NoStat
    /\ UNCHANGED <<trackerVars, workflowVars, uploads, mv, fmt>>

(***************************************************************************)
(* SizeService.get_human_readable_size (lines 356-364).                    *)
(***************************************************************************)
\* round(size / unit, 2), in hundredths.  unit is a power of 1024, so the
\* float quotient is exact and round() rounds its exact value half to even.
\* 100 * size / unit is worked out as 25 * r / (unit / 4) on the remainder r,
\* in two limbs of 15 bits so that no product leaves 32 bits.
Round2(size, unit) ==
    LET q == size \div unit
        r == size % unit
        D == unit \div 4
        C == IF D >= 32768 THEN 32768 ELSE 1
        a == r \div C
        b == r % C
        X == 25 * a + ((25 * b) \div C)
        floor == X \div (D \div C)
        rem == (X % (D \div C)) * C + ((25 * b) % C)
        up == \/ 2 * rem > D
              \/ 2 * rem = D /\ floor % 2 = 1
    IN q * 100 + floor + (IF up THEN 1 ELSE 0)

\* str() of a float that has at most two decimals: "1.0", "1.5", "1.46".
FloatText(hundredths) ==
    LET d == hundredths % 100
    IN ToString(hundredths \div 100) \o "." \o
       (IF d % 10 = 0 THEN ToString(d \div 10)
        ELSE ToString(d \div 10) \o ToString(d % 10))

\* Mutant of get_human_readable_size: the thresholds are inclusive (<=).
get_human_readable_size_inclusive(size) ==
    IF size <= 1024
    THEN [number |-> ToString(size), unit |-> "bytes"]
    ELSE IF size <= 1024 ^ 2
    THEN [number |-> FloatText(Round2(size, 1024)), unit |-> "KB"]
    ELSE IF size <= 1024 ^ 3
    THEN [number |-> FloatText(Round2(size, 1024 ^ 2)), unit |-> "MB"]
    ELSE [number |-> FloatText(Round2(size, 1024 ^ 3)), unit |-> "GB"]

\* The returned f-string is number, a space, unit.
get_human_readable_size(size) ==
    IF size < 1024
    THEN [number |-> ToString(size), unit |-> "bytes"]
    ELSE IF size < 1024 ^ 2
    THEN [number |-> FloatText(Round2(size, 1024)), unit |-> "KB"]
    ELSE IF size < 1024 ^ 3
    THEN [number |-> FloatText(Round2(size, 1024 ^ 2)), unit |-> "MB"]
    ELSE [number |-> FloatText(Round2(size, 1024 ^ 3)), unit |-> "GB"]

ReadableText(r) == r.number \o " " \o r.unit

\* The sizes tried: a window on each side of every threshold, and multiples
\* of one and a half units.
Sizes ==
    (0..SizeWindow)
    \cup UNION {(B - SizeWindow)..(B + SizeWindow) : B \in {1024, 1024 ^ 2, 1024 ^ 3}}
    \cup {1536 * k : k \in 1..SizeWindow}
    \cup {1572864 * k : k \in 1..SizeWindow}
    \cup {1152, 1610612736, 2147483647}

NoFormat == [called |-> FALSE, size |-> 0, text |-> "", unit |-> ""]

\* One call of get_human_readable_size(size).
HumanReadableSize(size) ==
    /\ fmt' = [called |-> TRUE, size |-> size,
               text |-> ReadableText(get_human_readable_size(size)),
               unit |-> get_human_readable_size(size).unit]
    /\ UNCHANGED <<trackerVars, workflowVars, uploads, mv, stat>>

(***************************************************************************)
(* Specifications.                                                         *)
(***************************************************************************)
TrackerInit ==
    /\ records = [k \in Kinds |-> <<>>]
    /\ req = [r \in Requests |-> IdleReq]
    /\ uuidCount = 0
    /\ history = <<>>

\* The store starts empty; user 1 has uploaded both files, user 2 only a.uvl.
WorkflowInit ==
    /\ db = EmptyStore
    /\ sess = EmptyStore
    /\ wf = IdleWf
    /\ db0 = EmptyStore
    /\ prev = NoPrev
    /\ nCreates = 0
    /\ nUpdates = 0
    /\ tempFiles = [u \in {U1.id, U2.id} |->
                       IF u = U1.id THEN {"a.uvl", "b.uvl"} ELSE {"a.uvl"}]

OtherInit ==
    /\ uploads = [d \in {} |-> {}]
    /\ mv = IdleMv
    /\ stat = NoStat
    /\ fmt = NoFormat

Init == TrackerInit /\ WorkflowInit /\ OtherInit

TrackerNext ==
    \/ \E r \in Requests, kind \in Kinds, dataset \in TrackedDatasets,
          cookies \in CookieJars : CookieCheck(r, kind, dataset, cookies)
    \/ \E r \in Requests : CookieCreate(r)

\* Requests served concurrently (one worker per request).
SpecTracker == Init /\ [][TrackerNext]_vars

\* Requests served one at a time: a call starts only when none is in flight.
TrackerSeqNext ==
    \/ \E r \in Requests, kind \in Kinds, dataset \in TrackedDatasets,
          cookies \in CookieJars :
            NoneInFlight /\ CookieCheck(r, kind, dataset, cookies)
    \/ \E r \in Requests : CookieCreate(r)

SpecTrackerSeq == Init /\ [][TrackerSeqNext]_vars

\* The dataset workflow: one call at a time, each run statement by statement.
WorkflowNext ==
    \/ \E form \in Forms, current_user \in Users :
          CreateFromForm(form, current_user)
    \/ CreateDSMetaData
    \/ CreateAuthor
    \/ CreateDataSet
    \/ CreateFMMetaData
    \/ CreateFMAuthor
    \/ CreateFeatureModel
    \/ CreateChecksum
    \/ CreateHubfile
    \/ CreateCommit
    \/ CreateExcept
    \/ CreateRaise
    \/ CreateReturn
    \/ \E form \in UpdateForms, current_user \in Users, dataset \in LoadedDataSets :
          UpdateFromForm(form, current_user, dataset)
    \/ UpdateDSMetaData
    \/ UpdateDeleteAuthors
    \/ UpdateAuthor
    \/ UpdateCommit
    \/ UpdateExcept
    \/ UpdateRaise
    \/ UpdateReturn

SpecWorkflow == Init /\ [][WorkflowNext]_vars

\* The create_from_form actions.
CreateNext ==
    \/ \E form \in Forms, current_user \in Users :
          CreateFromForm(form, current_user)
    \/ CreateDSMetaData
    \/ CreateAuthor
    \/ CreateDataSet
    \/ CreateFMMetaData
    \/ CreateFMAuthor
    \/ CreateFeatureModel
    \/ CreateChecksum
    \/ CreateHubfile
    \/ CreateCommit
    \/ CreateExcept
    \/ CreateRaise
    \/ CreateReturn

\* Datasets are created and their files relocated, one call at a time; the
\* relocation runs as whoever is authenticated on the request.
RelocateNext ==
    \/ mv.pc = "idle" /\ CreateNext
    \/ \E current_user \in Users, dataset \in LoadedDataSets :
          MoveFeatureModels(current_user, dataset)
    \/ MoveFile
    \/ MoveRaise
    \/ MoveReturn

SpecRelocate == Init /\ [][RelocateNext]_vars

\* Requests served one at a time: datasets are created, visits and downloads
\* tracked, and statistics asked for between them.
StatisticsNext ==
    \/ stat = NoStat /\ NoneInFlight /\ CreateNext
    \/ stat = NoStat /\ wf.pc = "idle" /\ TrackerSeqNext
    \/ \E m \in StatisticMethods : Statistic(m)
    \/ StatisticDone

SpecStatistics == Init /\ [][StatisticsNext]_vars

\* The size formatter, called on one size after another.
SizeNext == \E size \in Sizes : HumanReadableSize(size)

SpecSize == Init /\ [][SizeNext]_vars

(***************************************************************************)
(* Properties of the tracker.                                              *)
(***************************************************************************)
Calls == 1..Len(history)

\* Call i had returned before call j started.
Sequential(i, j) == i < j /\ i <= history[j].startIdx

SameCall(i, j) ==
    /\ history[i].kind = history[j].kind
    /\ history[i].dataset = history[j].dataset

\* C2: in every reachable state, for each tracker kind, there is at most one
\* tracking record per (dataset, token) pair, also when two create_cookie
\* requests with the same token interleave their check and their create.
C2_AtMostOneRecordPerToken ==
    \A kind \in Kinds : \A i, j \in 1..Len(records[kind]) :
        records[kind][i] = records[kind][j] => i = j

\* Two create_cookie calls in sequence for the same dataset with the same
\* non-empty incoming token.
SameTokenTwice(i, j) ==
    /\ Sequential(i, j)
    /\ SameCall(i, j)
    /\ ~Falsy(history[i].incoming)
    /\ history[j].incoming = history[i].incoming

\* C3: when create_cookie is called twice in sequence for the same dataset
\* with the same non-empty incoming token, the second call creates no record
\* and exactly one record for that (dataset, token) exists afterwards.
C3_SequentialIdempotence ==
    \A i, j \in Calls :
        SameTokenTwice(i, j) =>
            /\ ~history[j].created
            /\ CountRecords(history[j].kind, history[j].dataset,
                            history[j].incoming) = 1

C3_Witness ==
    /\ NoneInFlight
    /\ \E i, j \in Calls : SameTokenTwice(i, j) /\ history[i].created

\* Two create_cookie calls for the same dataset, each with no incoming token.
NoTokenTwice(i, j) ==
    /\ i # j
    /\ SameCall(i, j)
    /\ Falsy(history[i].incoming)
    /\ Falsy(history[j].incoming)

\* C10: two create_cookie calls for the same dataset with no incoming token
\* return two distinct tokens and leave exactly two new records, one per
\* returned token.
C10_FreshTokensTwoRecords ==
    \A i, j \in Calls :
        NoTokenTwice(i, j) =>
            /\ history[i].token # history[j].token
            /\ history[i].created /\ history[j].created
            /\ CountRecords(history[i].kind, history[i].dataset,
                            history[i].token) = 1
            /\ CountRecords(history[j].kind, history[j].dataset,
                            history[j].token) = 1

\* Two such calls have returned, the second having started before the first
\* returned.
C10_Witness ==
    \E i, j \in Calls : NoTokenTwice(i, j) /\ i < j /\ ~Sequential(i, j)

\* C18: create_cookie returns a token for which a tracking record of that
\* dataset and kind exists; the token is the incoming one whenever one is
\* present, and a generated one, never handed out before the call started,
\* when the incoming token is absent or empty.
C18_ReturnedTokenHasRecord ==
    \A i \in Calls :
        LET h == history[i]
        IN /\ CountRecords(h.kind, h.dataset, h.token) >= 1
           /\ h.incoming \notin {None, ""} => h.token = h.incoming
           /\ h.incoming \in {None, ""} =>
                 /\ h.token \notin {None, ""} \cup ClientCookies
                 /\ \A j \in 1..h.startIdx : history[j].token # h.token

\* One call was given a token it had to generate; a later call came back with
\* that token and found its record.
C18_Witness ==
    \E i, j \in Calls :
        /\ Sequential(i, j)
        /\ SameCall(i, j)
        /\ history[i].incoming = ""
        /\ history[i].token = "u1"
        /\ history[j].incoming = "u1"
        /\ history[j].token = "u1"
        /\ ~history[j].created

\* C19: each create_cookie call adds at most one tracking record, of its own
\* kind, for its dataset and the token it returns, and no step deletes or
\* changes an existing tracking record of any kind.
C19_TrackerFrame ==
    [][/\ \A kind \in Kinds :
             /\ Len(records'[kind]) >= Len(records[kind])
             /\ SubSeq(records'[kind], 1, Len(records[kind])) = records[kind]
       /\ records' # records =>
             /\ Len(history') = Len(history) + 1
             /\ LET h == history'[Len(history')]
                IN records' = [records EXCEPT ![h.kind] =
                                  Append(@, [dataset_id |-> h.dataset,
                                             cookie |-> h.token])]]_vars

\* A view call has added its record next to a download record of the same
\* dataset and token.
C19_Witness ==
    /\ Len(history) = 2
    /\ history[1].kind = "download"
    /\ history[2].kind = "view"
    /\ history[2].created
    /\ history[2].dataset = history[1].dataset
    /\ history[2].token = history[1].token
    /\ Len(records.download) = 1
    /\ Len(records.view) = 1

(***************************************************************************)
(* Properties of the dataset workflow.  A call's outcome is read where the *)
(* call is about to return (cf_return, uf_return) or, its rollback done,   *)
(* about to re-raise (cf_raise, uf_raise): the store no longer changes.    *)
(***************************************************************************)
Returning == wf.pc \in {"cf_return", "uf_return"}

\* The dataset-level authors persisted for the running call's metadata.
PersistedAuthors == AuthorsOf(db, "ds_meta_data_id", wf.dsmetadata)

\* "Surname, Name", affiliation and ORCID of a user's profile.
ProfileIdentity(user) ==
    [name |-> user.profile.surname \o ", " \o user.profile.name,
     affiliation |-> user.profile.affiliation,
     orcid |-> user.profile.orcid]

\* The rows of a table of the committed store that were not there when the
\* running call started.
NewRows(table) ==
    {i \in 1..Len(db[table]) :
        \A j \in 1..Len(db0[table]) : db[table][i] # db0[table][j]}

\* C1: once a create_from_form call that raised has rolled back, no
\* DSMetaData, Author, FMMetaData, FeatureModel or Hubfile row written by it
\* is visible in the committed store.
C1_CreateAtomicity ==
    wf.pc = "cf_raise" =>
        \A table \in {"ds_meta_data", "author", "fm_meta_data",
                      "feature_model", "file"} : NewRows(table) = {}

\* C4: after a successful create_from_form or update_from_form of an anonymous
\* form, the persisted dataset-level authors are exactly
\* form.get_anonymous_authors(), whoever the user is and whatever
\* form.get_authors() returns.
C4_AnonymousAuthors ==
    (Returning /\ wf.form.dataset_anonymous) =>
        PersistedAuthors = wf.form.anonymous_authors

C4_Witness ==
    /\ wf.pc = "uf_return"
    /\ wf.form.dataset_anonymous
    /\ wf.form.anonymous_authors = <<N1, N2>>
    /\ wf.form.authors = <<A2, A1>>
    /\ PersistedAuthors = <<N1, N2>>

\* C5: after a successful create_from_form or update_from_form of a form that
\* is not anonymous and supplies no co-authors, the persisted dataset-level
\* author list is the single entry "Surname, Name", affiliation, ORCID of the
\* current user's profile.
C5_DefaultAuthor ==
    (Returning /\ ~wf.form.dataset_anonymous /\ wf.form.authors = <<>>) =>
        PersistedAuthors = <<ProfileIdentity(wf.current_user)>>

C5_Witness ==
    /\ wf.pc = "cf_return"
    /\ ~wf.form.dataset_anonymous
    /\ wf.form.authors = <<>>
    /\ wf.current_user = U2
    /\ PersistedAuthors = <<[name |-> "Roe, Rik", affiliation |-> "UM", orcid |-> ""]>>

\* A second successful update_from_form of the same dataset, resolving another
\* author list than the first.
SecondUpdate ==
    /\ wf.pc = "uf_return"
    /\ prev.op = "update"
    /\ prev.ok
    /\ prev.dataset = wf.dataset
    /\ prev.author_list # wf.author_list

\* C6: after two successful update_from_form calls on the same dataset whose
\* resolved author lists differ, the authors persisted for the dataset's
\* metadata are exactly the second call's list.
C6_UpdateReplaces ==
    SecondUpdate => PersistedAuthors = wf.author_list

C6_Witness ==
    /\ SecondUpdate
    /\ prev.author_list # <<>>
    /\ wf.author_list # <<>>
    /\ Len(db.data_set) = 1

\* C7: when update_from_form raises, the committed store holds the same
\* metadata values and the same author list for the dataset as before the call.
C7_UpdateAllOrNothing ==
    wf.pc = "uf_raise" =>
        /\ Rows(db, "ds_meta_data", "id", wf.dsmetadata)
             = Rows(db0, "ds_meta_data", "id", wf.dsmetadata)
        /\ PersistedAuthors = AuthorsOf(db0, "ds_meta_data_id", wf.dsmetadata)

\* C8: in every committed state every visible DataSet row has exactly one
\* DSMetaData and at least one dataset-level Author.
C8_VisibleDataSetComplete ==
    \A i \in 1..Len(db.data_set) :
        /\ Len(Rows(db, "ds_meta_data", "id", db.data_set[i].ds_meta_data_id)) = 1
        /\ Len(Rows(db, "author", "ds_meta_data_id",
                    db.data_set[i].ds_meta_data_id)) >= 1

\* The dataset create_from_form is about to return, as the session loads it.
CreatedDataSet == Rows(sess, "data_set", "id", wf.dataset)[1]

\* C9 as stated: populate_form_from_dataset on the dataset create_from_form
\* returns gives back the dataset fields, the author entries and the
\* feature-model entries of the submitted form, in order, whatever the form.
C9_RoundTrip ==
    wf.pc = "cf_return" =>
        \A form \in Forms :
            LET out == populate_form_from_dataset(form, CreatedDataSet)
            IN /\ out.fields = wf.form.fields
               /\ out.authors = wf.form.authors
               /\ out.feature_models = wf.form.feature_models

\* C9 as amended: the dataset fields and the feature-model entries come back
\* as submitted; the author entries are the resolved list: the anonymous list
\* of an anonymous form, else the co-authors if any, else the current user's
\* identity alone.
C9_RoundTripResolved ==
    wf.pc = "cf_return" =>
        \A form \in Forms :
            LET out == populate_form_from_dataset(form, CreatedDataSet)
            IN /\ out.fields = wf.form.fields
               /\ out.dataset_anonymous = wf.form.dataset_anonymous
               /\ out.feature_models = wf.form.feature_models
               /\ out.authors =
                     IF wf.form.dataset_anonymous THEN wf.form.anonymous_authors
                     ELSE IF wf.form.authors # <<>> THEN wf.form.authors
                     ELSE <<ProfileIdentity(wf.current_user)>>

C9_Witness ==
    /\ wf.pc = "cf_return"
    /\ wf.form.feature_models = <<FMA, FMB>>
    /\ wf.form.authors = <<A2, A1>>
    /\ ~wf.form.dataset_anonymous
    /\ populate_form_from_dataset(BlankForm, CreatedDataSet).authors = <<A2, A1>>

\* The FeatureModel rows of the dataset the running call works on, in order.
FeatureModelsOfCall == Rows(db, "feature_model", "data_set_id", wf.dataset)

\* C12: after a successful create_from_form, the authors persisted for each
\* feature-model entry's metadata are resolved by the dataset-level rule scoped
\* to the entry: its explicit authors if any, else the current user's identity
\* alone (no entry of a submitted form is anonymous: the entries carry no
\* anonymity field that create_from_form reads).
C12_FeatureModelAuthorsResolved ==
    wf.pc = "cf_return" =>
        /\ Len(FeatureModelsOfCall) = Len(wf.form.feature_models)
        /\ \A k \in 1..Len(wf.form.feature_models) :
              AuthorsOf(db, "fm_meta_data_id", FeatureModelsOfCall[k].fm_meta_data_id)
                = IF wf.form.feature_models[k].authors # <<>>
                  THEN wf.form.feature_models[k].authors
                  ELSE <<ProfileIdentity(wf.current_user)>>

\* The whole aggregate of the running create_from_form call is in the
\* committed store: its metadata, its authors, the dataset, and every feature
\* model with its metadata, its authors and its file.
WholeAggregateVisible ==
    /\ Len(Rows(db, "ds_meta_data", "id", wf.dsmetadata)) = 1
    /\ PersistedAuthors = wf.author_list
    /\ Len(Rows(db, "data_set", "ds_meta_data_id", wf.dsmetadata)) = 1
    /\ Len(FeatureModelsOfCall) = Len(wf.form.feature_models)
    /\ \A k \in 1..Len(FeatureModelsOfCall) :
          LET fm == FeatureModelsOfCall[k]
          IN /\ Len(Rows(db, "fm_meta_data", "id", fm.fm_meta_data_id)) = 1
             /\ AuthorsOf(db, "fm_meta_data_id", fm.fm_meta_data_id)
                  = wf.form.feature_models[k].authors
             /\ Len(Rows(db, "file", "feature_model_id", fm.id)) = 1

\* C13: in every state of the committed store while create_from_form is
\* running, either no row of that call is visible or the whole aggregate is; a
\* DSMetaData row without its dataset is never visible.
C13_SingleCommitVisibility ==
    wf.op = "create" =>
        \/ \A table \in Tables : NewRows(table) = {}
        \/ WholeAggregateVisible

\* The feature models of a dataset as a store holds them: each FeatureModel
\* row with its FMMetaData, its feature-model-level Author rows and its
\* Hubfile rows.
DataSetFeatureModels(store, dataset) ==
    LET fms == Rows(store, "feature_model", "data_set_id", dataset)
    IN [k \in 1..Len(fms) |->
           [feature_model |-> fms[k],
            fm_meta_data |-> Rows(store, "fm_meta_data", "id", fms[k].fm_meta_data_id),
            authors |-> Rows(store, "author", "fm_meta_data_id",
                             fms[k].fm_meta_data_id),
            files |-> Rows(store, "file", "feature_model_id", fms[k].id)]]

\* C14: update_from_form leaves the dataset's feature models unchanged: at
\* every step of the call, and after it whether it returned or raised, the
\* dataset's FeatureModel rows, their FMMetaData, their feature-model-level
\* authors and their Hubfile rows are those of before the call.
C14_UpdateKeepsFeatureModels ==
    wf.op = "update" =>
        /\ DataSetFeatureModels(db, wf.dataset) = DataSetFeatureModels(db0, wf.dataset)
        /\ DataSetFeatureModels(sess, wf.dataset) = DataSetFeatureModels(db0, wf.dataset)

\* An update has returned on a dataset with two feature models, one of which
\* has an author of its own, after deleting the dataset-level authors.
C14_Witness ==
    /\ wf.pc = "uf_return"
    /\ Len(DataSetFeatureModels(db, wf.dataset)) = 2
    /\ DataSetFeatureModels(db, wf.dataset)[1].authors # <<>>
    /\ Rows(db0, "author", "ds_meta_data_id", wf.dsmetadata) # <<>>
    /\ Rows(db, "author", "ds_meta_data_id", wf.dsmetadata)
         # Rows(db0, "author", "ds_meta_data_id", wf.dsmetadata)

\* C15: on any failure inside create_from_form or update_from_form the
\* failure is logged, then the session is rolled back, then the exception the
\* except clause caught is raised to the caller; nothing is committed after
\* the failure and the call does not return a dataset.
C15_LogRollbackRaise ==
    [][/\ wf.pc \in {"cf_except", "uf_except"} =>
             /\ wf.events = <<Failure(wf.exc)>>
             /\ wf'.pc = (IF wf.op = "create" THEN "cf_raise" ELSE "uf_raise")
             /\ db' = db
       /\ wf.pc \in {"cf_raise", "uf_raise"} =>
             /\ wf.events = <<Failure(wf.exc), Logged(wf.exc), RolledBack>>
             /\ sess = db
             /\ wf'.pc = "idle"
             /\ prev'.op = wf.op
             /\ ~prev'.ok
             /\ db' = db
             /\ sess' = sess
       /\ wf.pc \in {"cf_return", "uf_return"} => wf.events = <<>>]_vars

\* create_from_form failed on a missing file, with rows pending in the
\* session; the failure was logged and the session rolled back.
C15_Witness ==
    /\ wf.pc = "cf_raise"
    /\ wf.exc = "FileNotFoundError"
    /\ wf.events = <<Failure("FileNotFoundError"), Logged("FileNotFoundError"),
                     RolledBack>>
    /\ sess = db
    /\ sess.data_set = <<>>

(***************************************************************************)
(* Properties of move_feature_models.                                      *)
(***************************************************************************)
\* The file names of the dataset's feature models that the running
\* move_feature_models call has moved: those before the k-th.
MovedFiles == {MoveFileName(mv.dataset, j) : j \in 1..(mv.k - 1)}

\* C16: when move_feature_models fails on the k-th feature model's file, the
\* failure leaves the loop at once: the files before the k-th are in the
\* dataset's directory and no longer in the temporary folder, no other file
\* has been touched, and the dataset's rows are still committed as they were.
C16_MoveFailureKeepsState ==
    mv.pc = "mv_raise" =>
        LET user == mv.current_user.id
            dest == dest_dir(mv.current_user, mv.dataset)
        IN /\ mv.k \in 1..Len(Rows(db, "feature_model", "data_set_id", mv.dataset))
           /\ tempFiles = [mv.start.tempFiles EXCEPT ![user] = @ \ MovedFiles]
           /\ uploads = [mv.start.uploads EXCEPT ![dest] = @ \cup MovedFiles]
           /\ MovedFiles \subseteq mv.start.tempFiles[user]
           /\ db = mv.start.db
           /\ sess = db
           /\ Len(Rows(db, "data_set", "id", mv.dataset)) = 1

\* The move failed on the second file after moving the first.
C16_Witness ==
    /\ mv.pc = "mv_raise"
    /\ mv.exc = "FileNotFoundError"
    /\ mv.k = 2
    /\ MovedFiles = {"a.uvl"}
    /\ "a.uvl" \in uploads[dest_dir(mv.current_user, mv.dataset)]
    /\ "a.uvl" \notin tempFiles[mv.current_user.id]
    /\ Len(Rows(db, "file", "name", "b.uvl")) = 1

(***************************************************************************)
(* Properties of the statistics methods.                                   *)
(***************************************************************************)
\* The number of persisted rows each statistics method is documented to give.
PersistedCount(m) ==
    CASE m = "count_synchronized_datasets" -> count_synchronized_datasets
      [] m = "count_feature_models" -> Len(db.feature_model)
      [] m = "count_authors" -> Len(db.author)
      [] m = "count_dsmetadata" -> Len(db.ds_meta_data)
      [] m = "total_dataset_downloads" -> Len(records.download)
      [] m = "total_dataset_views" -> Len(records.view)

\* C17: every statistics method of DataSetService returns the count of its
\* persisted collection in any reachable state and changes no state; in
\* particular count_feature_models returns the number of FeatureModel rows.
C17_StatisticsCount ==
    [][(stat = NoStat /\ stat' # NoStat) =>
           /\ stat'.raised = ""
           /\ stat'.returned = PersistedCount(stat'.method)
           /\ UNCHANGED <<trackerVars, workflowVars, uploads, mv, fmt>>]_vars

(***************************************************************************)
(* Properties of the size formatter.                                       *)
(***************************************************************************)
\* C11: get_human_readable_size picks its unit by exclusive upper bounds on a
\* 1024 base: bytes iff size < 1024, KB iff 1024 <= size < 1024^2, MB iff
\* 1024^2 <= size < 1024^3, GB otherwise; 1023 is reported in bytes and 1024,
\* 1024^2 and 1024^3 each as 1.0 of the next unit.
C11_SizeThresholds ==
    (fmt.called /\ fmt.size >= 0) =>
        /\ fmt.unit = "bytes" <=> fmt.size < 1024
        /\ fmt.unit = "KB" <=> (1024 <= fmt.size /\ fmt.size < 1024 * 1024)
        /\ fmt.unit = "MB" <=> (1024 * 1024 <= fmt.size
                                 /\ fmt.size < 1024 * 1024 * 1024)
        /\ fmt.unit = "GB" <=> 1024 * 1024 * 1024 <= fmt.size
        /\ fmt.size = 1023 => fmt.text = "1023 bytes"
        /\ fmt.size = 1024 => fmt.text = "1.0 KB"
        /\ fmt.size = 1536 => fmt.text = "1.5 KB"
        /\ fmt.size = 1024 * 1024 => fmt.text = "1.0 MB"
        /\ fmt.size = 1024 * 1024 * 1024 => fmt.text = "1.0 GB"

C11_Witness ==
    /\ fmt.called
    /\ fmt.size = 1024 * 1024 * 1024
    /\ fmt.text = "1.0 GB"

====
